---- MODULE Spec2Model ----
(***************************************************************************)
(* Model of the validation engine of IAL-expertise:                        *)
(*   - davai_tbx/expertise.py : ExpertBoard (panel of experts, parse,      *)
(*     compare, status aggregation, dump);                                 *)
(*   - ial_expertise/experts/fields.py : compare_2_files, compare_2_fields *)
(*     and ignore_field (field-by-field comparison of a file pair).        *)
(*                                                                         *)
(* Python values are encoded as follows.  A dict with a fixed set of       *)
(* possible keys is a record in which an absent key holds Missing; the     *)
(* per-expert entries of a TaskSummary are a function whose DOMAIN is the  *)
(* set of keys present.  Python's None, True and False held in a dict are  *)
(* the strings "None", "True" and "False" so that a key can hold any of    *)
(* them.  Texts are strings, built with \o exactly as the code formats     *)
(* them.                                                                   *)
(***************************************************************************)
EXTENDS Integers, Sequences, FiniteSets, TLC

VARIABLES
    pc,            \* position of the board: "new", "idle", "compare", "failed"
    expert_kwargs, \* ExpertBoard.__init__ argument `experts` (consumed by it)
    lead_arg,      \* ExpertBoard.__init__ argument `lead_expert`
    experts,       \* self.experts: the panel, in order
    lead_expert,   \* self.lead_expert
    task_summary,  \* self.task_summary
    consistency,   \* self.consistency
    continuity,    \* self.continuity
    files,         \* what dump()/parse() last wrote to the three json files
    call,          \* the API call in progress, or the last one made
    ncalls,        \* number of API calls made on the board
    fcmp,          \* the compare_2_files call (file pair, options, loop state)
    fexp,          \* the FieldsInFileExpert._compare call (references, pairs, results)
    nrm            \* the NormsChecker._compare_2normsets call

vars == <<pc, expert_kwargs, lead_arg, experts, lead_expert, task_summary,
          consistency, continuity, files, call, ncalls, fcmp, fexp, nrm>>

boardVars == <<pc, expert_kwargs, lead_arg, experts, lead_expert, task_summary,
               consistency, continuity, files, call, ncalls>>

-----------------------------------------------------------------------------
(* Bounds of the model *)

\* number of calls to parse/compare/process/dump made on one board
MaxCalls == 2

-----------------------------------------------------------------------------
(* Python values *)

Missing == "<missing>"      \* a key that is not in the dict / an unbound local
None == "None"
PyTrue == "True"
PyFalse == "False"
NoExc == "none"             \* the call returned normally

\* bool(x) of a value held in a dict (dict.get(...) gives None when absent)
Truthy(v) == v = PyTrue

\* the comparator kinds of the repository (the footprints' `kind` values)
Kinds == {"norms", "fields_in_file"}

-----------------------------------------------------------------------------
(* Status codes: ExpertBoard._status and _notify_no_ref_resource *)

status_order == <<"-", "0", "?", "OK", "KO", "!", "+">>

\* list.index(x)
index(seq, x) == CHOOSE i \in 1..Len(seq) : seq[i] = x

Rank(symbol) == index(status_order, symbol)

NoStatus == [symbol |-> Missing, short |-> Missing, text |-> Missing]

StatusNoExpert ==
    [symbol |-> "-", short |-> "- No expert -", text |-> "No expert available"]

StatusNoRef ==
    [symbol |-> "0", short |-> "- No ref -",
     text |-> "No reference to be compared to"]

StatusOK(means) ==
    [symbol |-> "OK", short |-> "OK",
     text |-> "Success: \"" \o means \o "\""]

StatusKO(means) ==
    [symbol |-> "KO", short |-> "KO",
     text |-> "Fail: \"" \o means \o "\" is False"]

StatusCompIssue ==
    [symbol |-> "!", short |-> "! Comp Issue !",
     text |-> "To be checked: at least one technical problem occurred in comparison"]

StatusUnknown ==
    [symbol |-> "?", short |-> "? Unknown ?",
     text |-> "To be checked: expert has not stated about Validation"]

-----------------------------------------------------------------------------
(* Result documents returned by an expert's compare() *)

\* {}: the keys _status reads, all absent
EmptyDoc ==
    [symbol |-> Missing, short |-> Missing, text |-> Missing,
     Validated |-> Missing, means |-> Missing, Comparison |-> Missing,
     comparisonStatus |-> NoStatus]

\* the document is itself a '+' status (the reference task crashed)
DocCrashedRef(kind) ==
    [EmptyDoc EXCEPT !.symbol = "+", !.short = "+ Ref crashed +",
                     !.text = "Reference crashed, seen by " \o kind]

\* 'Validated means' of each kind of expert (fields.py:151 and fields.py:500)
MeansOf(kind) ==
    IF kind = "norms"
    THEN "Maximum number of different digits in norms is lower or equal to {}"
    ELSE "All fields have identical shape/mask than reference, and data is bit-repro"

DocValidated(kind, v) ==
    [EmptyDoc EXCEPT !.Validated = v, !.means = MeansOf(kind)]

DocFailed == [EmptyDoc EXCEPT !.Comparison = "Failed"]

\* fields.py:434: the expert itself reports that it had no adequate reference
DocNoAdequateRef ==
    [EmptyDoc EXCEPT !.comparisonStatus =
        [symbol |-> "0", short |-> "- No ref -",
         text |-> "No adequate reference available"]]

\* what e.compare() may return for an expert of that kind
ResultDocs(kind) ==
    {DocCrashedRef(kind), DocValidated(kind, PyTrue), DocValidated(kind, PyFalse),
     DocValidated(kind, None), DocFailed, DocNoAdequateRef, EmptyDoc}

\* the part of a result document that is a status record
AsStatus(doc) == [symbol |-> doc.symbol, short |-> doc.short, text |-> doc.text]

-----------------------------------------------------------------------------
(* TaskSummary documents of the two comparison categories *)

Categories == <<"consistency", "continuity">>

NoEntries == [k \in {} |-> EmptyDoc]

EmptySummary ==
    [entries |-> NoEntries, referenceTask |-> Missing,
     comparisonStatus |-> NoStatus, leadExpert |-> Missing]

\* len(comp_summary)
SummaryLen(s) ==
    Cardinality(DOMAIN s.entries)
    + (IF s.referenceTask # Missing THEN 1 ELSE 0)
    + (IF s.comparisonStatus # NoStatus THEN 1 ELSE 0)
    + (IF s.leadExpert # Missing THEN 1 ELSE 0)

\* comp_summary[kind] = doc
SetEntry(s, kind, doc) ==
    [s EXCEPT !.entries =
        [k \in (DOMAIN s.entries) \cup {kind} |->
            IF k = kind THEN doc ELSE s.entries[k]]]

\* for e in self.experts: comp_summary.pop(e.kind, None)
PopExperts(s, panel) ==
    LET gone == {panel[i].kind : i \in 1..Len(panel)}
    IN [s EXCEPT !.entries = [k \in (DOMAIN s.entries) \ gone |-> s.entries[k]]]

\* _notify_no_ref_resource writing the default status of _status instead
notify_no_expert(s) == [s EXCEPT !.comparisonStatus = StatusNoExpert]

\* _notify_no_ref_resource
_notify_no_ref_resource(s) == [s EXCEPT !.comparisonStatus = StatusNoRef]

-----------------------------------------------------------------------------
(* ExpertBoard._status *)

(* State of one run of the loop: the summary, the local variable `status`    *)
(* (NoStatus while it is unbound), whether `status` and                      *)
(* comp_summary['comparisonStatus'] are the same dict object, the exception  *)
(* raised, and, per expert reached, the symbol of the status its iteration   *)
(* left in `status` ("skip" for a side expert).                              *)
LoopInit(s) ==
    [comp |-> [s EXCEPT !.comparisonStatus = StatusNoExpert],
     status |-> NoStatus, aliased |-> FALSE, exc |-> NoExc, assigned |-> <<>>]

\* UpdateStatus without the comparison of ranks: the last status wins
UpdateStatusLastWins(st) ==
    IF st.exc # NoExc THEN st
    ELSE IF st.status = NoStatus
    THEN [st EXCEPT !.exc = "UnboundLocalError"]
    ELSE [st EXCEPT !.comp.comparisonStatus = st.status, !.aliased = TRUE]

\* "update status": lines 157-163
UpdateStatus(st) ==
    IF st.exc # NoExc THEN st
    ELSE IF st.status = NoStatus
    THEN [st EXCEPT !.exc = "UnboundLocalError"]
    ELSE IF Rank(st.status.symbol) >= Rank(st.comp.comparisonStatus.symbol)
    THEN IF /\ st.status.symbol = st.comp.comparisonStatus.symbol
            /\ st.status.symbol \in {"OK", "KO"}
         THEN LET joined == [st.comp.comparisonStatus EXCEPT
                                !.text = @ \o " | " \o st.status.text]
              IN [st EXCEPT !.comp.comparisonStatus = joined,
                            !.status = IF st.aliased THEN joined ELSE @]
         ELSE [st EXCEPT !.comp.comparisonStatus = st.status, !.aliased = TRUE]
    ELSE st

\* a new dict is bound to `status`
Bind(st, status) == [st EXCEPT !.status = status, !.aliased = FALSE]

\* the branches of lines 135-156, for a non-side expert without a '+' result
InterpretDoc(st, kind) ==
    LET has == kind \in DOMAIN st.comp.entries
        doc == IF has THEN st.comp.entries[kind] ELSE EmptyDoc
    IN IF has /\ doc.Validated # Missing
       THEN IF doc.Validated = PyTrue
            THEN IF doc.means = Missing
                 THEN [st EXCEPT !.exc = "KeyError"]
                 ELSE Bind(st, StatusOK(doc.means))
            ELSE IF doc.Validated = PyFalse
            THEN IF doc.means = Missing
                 THEN [st EXCEPT !.exc = "KeyError"]
                 ELSE Bind(st, StatusKO(doc.means))
            ELSE st   \* neither True nor False: `status` keeps what it held
       ELSE IF has /\ doc.Comparison = "Failed"
       THEN Bind(st, StatusCompIssue)
       ELSE IF has /\ doc.comparisonStatus.symbol = "0"
       THEN Bind(st, doc.comparisonStatus)
       ELSE Bind(st, StatusUnknown)

Record(st, kind) ==
    IF st.exc # NoExc THEN st
    ELSE [st EXCEPT !.assigned = Append(@, [kind |-> kind, symbol |-> st.status.symbol])]

\* Iterate without the branch of line 133: side experts are interpreted too
IterateSideExperts(st, e, panel) ==
    IF e.kind \in DOMAIN st.comp.entries /\ st.comp.entries[e.kind].symbol = "+"
    THEN Record(UpdateStatus(
            [Bind(st, AsStatus(st.comp.entries[e.kind])) EXCEPT
                !.comp = PopExperts(st.comp, panel)]), e.kind)
    ELSE Record(UpdateStatus(InterpretDoc(st, e.kind)), e.kind)

\* one iteration of "for e in self.experts": lines 127-163
Iterate(st, e, panel) ==
    IF e.kind \in DOMAIN st.comp.entries /\ st.comp.entries[e.kind].symbol = "+"
    THEN Record(UpdateStatus(
            [Bind(st, AsStatus(st.comp.entries[e.kind])) EXCEPT
                !.comp = PopExperts(st.comp, panel)]), e.kind)
    ELSE IF e.side_expert
    THEN [st EXCEPT !.assigned = Append(@, [kind |-> e.kind, symbol |-> "skip"])]
    ELSE Record(UpdateStatus(InterpretDoc(st, e.kind)), e.kind)

RECURSIVE RunLoop(_, _, _)
RunLoop(st, panel, i) ==
    IF i > Len(panel) \/ st.exc # NoExc
    THEN st
    ELSE RunLoop(Iterate(st, panel[i], panel), panel, i + 1)

NonSide(e) == ~e.side_expert

\* InferLead without the test of line 165: the inference overrides the lead
InferLeadOverriding(lead, panel) ==
    LET potential_experts == SelectSeq(panel, NonSide)
    IN IF Len(potential_experts) = 1
       THEN potential_experts[1].kind
       ELSE lead

\* "identify leadExpert": lines 165-168
InferLead(lead, panel) ==
    LET potential_experts == SelectSeq(panel, NonSide)
    IN IF lead = None /\ Len(potential_experts) = 1
       THEN potential_experts[1].kind
       ELSE lead

\* _status(which_summary) on summary s: the summary it leaves, self.lead_expert,
\* the exception raised and the statuses the loop assigned
_status(s, panel, lead) ==
    IF SummaryLen(s) > 0
    THEN LET st == RunLoop(LoopInit(s), panel, 1)
             lead2 == InferLead(lead, panel)
         IN IF st.exc # NoExc
            THEN [summary |-> st.comp, lead_expert |-> lead,
                  exc |-> st.exc, assigned |-> st.assigned]
            ELSE [summary |-> IF lead2 # None
                              THEN [st.comp EXCEPT !.leadExpert = lead2]
                              ELSE st.comp,
                  lead_expert |-> lead2, exc |-> NoExc, assigned |-> st.assigned]
    ELSE [summary |-> _notify_no_ref_resource(s), lead_expert |-> lead,
          exc |-> NoExc, assigned |-> <<>>]

-----------------------------------------------------------------------------
(* ExpertBoard: construction *)

\* the attributes given for one expert: its kind, its side_expert flag, whether
\* the footprints factory finds an expert for them (fpx.outputexpert(...) is
\* not None) and the 'fatal_exceptions' attribute
KwargsOf(kind) ==
    {[kind |-> kind, side_expert |-> s, found |-> TRUE, fatal_exceptions |-> TRUE] :
        s \in BOOLEAN}
    \cup {[kind |-> kind, side_expert |-> FALSE, found |-> FALSE, fatal_exceptions |-> f] :
        f \in BOOLEAN}

\* the lists of attributes given to the constructor: distinct kinds, any order
ExpertsArgs ==
    {<<>>}
    \cup {<<a>> : a \in UNION {KwargsOf(k) : k \in Kinds}}
    \cup {<<a, b>> : a \in KwargsOf("norms"), b \in KwargsOf("fields_in_file")}
    \cup {<<b, a>> : a \in KwargsOf("norms"), b \in KwargsOf("fields_in_file")}

\* the lead_expert argument: None, a kind, or a dict with or without 'kind'
LeadArgs ==
    {[isdict |-> FALSE, value |-> None],
     [isdict |-> FALSE, value |-> "fields_in_file"],
     [isdict |-> TRUE, value |-> "norms"],
     [isdict |-> TRUE, value |-> Missing]}

\* lines 41-43
LeadOf(arg) ==
    IF arg.isdict
    THEN IF arg.value = Missing THEN None ELSE arg.value
    ELSE arg.value

\* add_expert, applied to the state of the loop of __init__
add_expert(st, kw) ==
    IF st.exc # NoExc THEN st
    ELSE IF kw.found
    THEN [st EXCEPT !.experts =
            Append(@, [kind |-> kw.kind, side_expert |-> kw.side_expert])]
    ELSE IF kw.fatal_exceptions
    THEN [st EXCEPT !.exc = "ExpertError"]
    ELSE [st EXCEPT !.warned = TRUE]

RECURSIVE AddExperts(_, _, _)
AddExperts(st, args, i) ==
    IF i > Len(args) THEN st
    ELSE AddExperts(add_expert(st, args[i]), args, i + 1)

(* The record of an API call: its name and arguments, the index of the loop  *)
(* of compare(), the exception it raised, and what it did: the number of     *)
(* experts parsed, of e.compare() calls, of ExpertBoard.compare() calls and  *)
(* of _status() calls, whether it dumped, whether add_expert logged a        *)
(* warning, the two summaries as _status() found them and the symbols its    *)
(* loop assigned.                                                            *)
NoCall ==
    [op |-> "none", consistency |-> <<>>, continuity |-> FALSE, idx |-> 0,
     exc |-> NoExc, parsed |-> 0, compared |-> 0, board_compare |-> 0,
     aggregated |-> 0, dumped |-> FALSE, warned |-> FALSE,
     before |-> [consistency |-> EmptySummary, continuity |-> EmptySummary],
     assigned |-> [consistency |-> <<>>, continuity |-> <<>>]]

NoFiles ==
    [task_summary |-> Missing, task_consistency |-> NoStatus,
     task_continuity |-> NoStatus, written |-> {}]

NoFcmp == [pc |-> "off"]

\* no FieldsInFileExpert._compare call, no _compare_2normsets call
NoFexp == [pc |-> "off"]

NoNrm == [pc |-> "off"]

Init ==
    /\ pc = "new"
    /\ expert_kwargs \in ExpertsArgs
    /\ lead_arg \in LeadArgs
    /\ experts = <<>>
    /\ lead_expert = None
    /\ task_summary = [parsed |-> {}, Status |-> Missing, Updated |-> FALSE]
    /\ consistency = EmptySummary
    /\ continuity = EmptySummary
    /\ files = NoFiles
    /\ call = NoCall
    /\ ncalls = 0
    /\ fcmp = NoFcmp
    /\ fexp = NoFexp
    /\ nrm = NoNrm

\* ExpertBoard.__init__
Construct ==
    /\ pc = "new"
    /\ LET st == AddExperts([experts |-> <<>>, exc |-> NoExc, warned |-> FALSE],
                            expert_kwargs, 1)
       IN /\ pc' = IF st.exc = NoExc THEN "idle" ELSE "failed"
          /\ experts' = IF st.exc = NoExc THEN st.experts ELSE <<>>
          /\ lead_expert' = LeadOf(lead_arg)
          /\ task_summary' = IF st.exc = NoExc
                             THEN [task_summary EXCEPT !.Status = "E"]
                             ELSE task_summary
          /\ call' = [NoCall EXCEPT !.op = "__init__", !.exc = st.exc,
                                    !.warned = st.warned]
    /\ expert_kwargs' = <<>>
    /\ UNCHANGED <<lead_arg, consistency, continuity, files, ncalls, fcmp, fexp, nrm>>

-----------------------------------------------------------------------------
(* ExpertBoard: parse, compare, process, dump *)

\* the reference lists a call may be given: per consistency reference its
\* r['ref_is']['task']; for continuity whether the list is non-empty
ConsistencyRefs == {<<>>, <<"taskA">>, <<"taskA", "taskB">>}
ContinuityRefs == BOOLEAN

\* parse(): every expert parses; the task summary is dumped
ParseAll(ts) ==
    [ts EXCEPT !.parsed = {experts[i].kind : i \in 1..Len(experts)}]

\* what a dumped category file holds of its document
Dumped(s) == s.comparisonStatus

DumpAll(f, ts, cons, cont) ==
    [task_summary |-> ts, task_consistency |-> Dumped(cons),
     task_continuity |-> Dumped(cont),
     written |-> {"task_summary.json", "task_consistency.json", "task_continuity.json"}]

Callable == pc = "idle" /\ ncalls < MaxCalls

\* parse()
Parse ==
    /\ Callable
    /\ task_summary' = ParseAll(task_summary)
    /\ files' = [files EXCEPT !.task_summary = task_summary',
                              !.written = @ \cup {"task_summary.json"}]
    /\ call' = [NoCall EXCEPT !.op = "parse", !.parsed = Len(experts)]
    /\ ncalls' = ncalls + 1
    /\ UNCHANGED <<pc, expert_kwargs, lead_arg, experts, lead_expert,
                   consistency, continuity, fcmp, fexp, nrm>>

\* dump()
Dump ==
    /\ Callable
    /\ files' = DumpAll(files, task_summary, consistency, continuity)
    /\ call' = [NoCall EXCEPT !.op = "dump", !.dumped = TRUE]
    /\ ncalls' = ncalls + 1
    /\ UNCHANGED <<pc, expert_kwargs, lead_arg, experts, lead_expert,
                   task_summary, consistency, continuity, fcmp, fexp, nrm>>

\* set(ref_task) has more than one element
SeveralTasks(refs) == Cardinality({refs[i] : i \in 1..Len(refs)}) > 1

\* CompareBegin writing referenceTask before the test of line 101
CompareBeginWriting(c, cons, cont) ==
    IF Len(cons) > 0 /\ SeveralTasks(cons)
    THEN /\ pc' = "idle"
         /\ call' = [c EXCEPT !.exc = "ExpertError", !.board_compare = 1,
                              !.consistency = cons, !.continuity = cont]
         /\ consistency' = [consistency EXCEPT !.referenceTask = cons[1]]
    ELSE /\ pc' = "compare"
         /\ call' = [c EXCEPT !.board_compare = 1, !.idx = 1,
                              !.consistency = cons, !.continuity = cont]
         /\ consistency' = IF Len(cons) > 0
                           THEN [consistency EXCEPT !.referenceTask = cons[1]]
                           ELSE consistency

\* compare(), lines 99-104, entered by `op` ("compare" or "process") whose call
\* record so far is c
CompareBegin(c, cons, cont) ==
    IF Len(cons) > 0 /\ SeveralTasks(cons)
    THEN /\ pc' = "idle"
         /\ call' = [c EXCEPT !.exc = "ExpertError", !.board_compare = 1,
                              !.consistency = cons, !.continuity = cont]
         /\ UNCHANGED consistency
    ELSE /\ pc' = "compare"
         /\ call' = [c EXCEPT !.board_compare = 1, !.idx = 1,
                              !.consistency = cons, !.continuity = cont]
         /\ consistency' = IF Len(cons) > 0
                           THEN [consistency EXCEPT !.referenceTask = cons[1]]
                           ELSE consistency

\* compare(consistency, continuity), up to the loop over the experts, for
\* reference lists drawn from the given sets
CompareWith(ConsSet, ContSet) ==
    /\ Callable
    /\ \E cons \in ConsSet, cont \in ContSet :
          CompareBegin([NoCall EXCEPT !.op = "compare"], cons, cont)
    /\ ncalls' = ncalls + 1
    /\ UNCHANGED <<expert_kwargs, lead_arg, experts, lead_expert, task_summary,
                   continuity, files, fcmp, fexp, nrm>>

\* the documents the experts return in the runs of the whole board
LifecycleDocs(kind) ==
    {DocValidated(kind, PyTrue), DocCrashedRef(kind)}

\* the documents an expert's compare() may return: all of them, those of the
\* runs of the whole board, or all but the crashed reference
DocsOf(which, kind) ==
    IF which = "lifecycle" THEN LifecycleDocs(kind)
    ELSE IF which = "no crash" THEN ResultDocs(kind) \ {DocCrashedRef(kind)}
    ELSE ResultDocs(kind)

\* one iteration of the loop of compare(), lines 105-113, the expert's
\* compare() returning a document of DocsOf(which, kind)
CompareExpertWith(which) ==
    /\ pc = "compare"
    /\ call.idx <= Len(experts)
    /\ LET e == experts[call.idx]
       IN /\ IF Len(call.consistency) > 0
             THEN \E d \in DocsOf(which, e.kind) :
                     consistency' = SetEntry(consistency, e.kind, d)
             ELSE UNCHANGED consistency
          /\ IF call.continuity
             THEN \E d \in DocsOf(which, e.kind) :
                     continuity' = SetEntry(continuity, e.kind, d)
             ELSE UNCHANGED continuity
          /\ call' = [call EXCEPT !.idx = @ + 1,
                        !.compared = @ + (IF Len(call.consistency) > 0 THEN 1 ELSE 0)
                                       + (IF call.continuity THEN 1 ELSE 0)]
    /\ UNCHANGED <<pc, expert_kwargs, lead_arg, experts, lead_expert,
                   task_summary, files, ncalls, fcmp, fexp, nrm>>

Compare == CompareWith(ConsistencyRefs, ContinuityRefs)

CompareExpert == CompareExpertWith("lifecycle")

\* the end of compare(), lines 115-116, and of process(), lines 62-63, when
\* process() made the call
CompareStatus ==
    /\ pc = "compare"
    /\ call.idx > Len(experts)
    /\ LET r1 == _status(consistency, experts, lead_expert)
           r2 == _status(continuity, experts, r1.lead_expert)
           exc == IF r1.exc # NoExc THEN r1.exc ELSE r2.exc
           done == exc = NoExc /\ call.op = "process"
       IN /\ consistency' = r1.summary
          /\ continuity' = IF r1.exc # NoExc THEN continuity ELSE r2.summary
          /\ lead_expert' = IF r1.exc # NoExc THEN r1.lead_expert ELSE r2.lead_expert
          /\ task_summary' = IF done
                             THEN [task_summary EXCEPT !.Updated = TRUE]
                             ELSE task_summary
          /\ files' = IF done
                      THEN DumpAll(files, task_summary', consistency', continuity')
                      ELSE files
          /\ call' = [call EXCEPT !.exc = exc, !.dumped = done,
                        !.aggregated = IF r1.exc # NoExc THEN 1 ELSE 2,
                        !.before = [consistency |-> consistency,
                                    continuity |-> continuity],
                        !.assigned = [consistency |-> r1.assigned,
                                      continuity |-> IF r1.exc # NoExc
                                                     THEN <<>> ELSE r2.assigned]]
    /\ pc' = "idle"
    /\ UNCHANGED <<expert_kwargs, lead_arg, experts, ncalls, fcmp, fexp, nrm>>

\* process(consistency, continuity) when a reference list is not empty: parse(),
\* then compare() up to its loop
ProcessCompare ==
    /\ Callable
    /\ task_summary' = ParseAll(task_summary)
    /\ files' = [files EXCEPT !.task_summary = task_summary',
                              !.written = @ \cup {"task_summary.json"}]
    /\ \E cons \in ConsistencyRefs, cont \in ContinuityRefs :
          /\ Len(cons) > 0 \/ cont
          /\ CompareBegin([NoCall EXCEPT !.op = "process", !.parsed = Len(experts)],
                          cons, cont)
    /\ ncalls' = ncalls + 1
    /\ UNCHANGED <<expert_kwargs, lead_arg, experts, lead_expert, continuity, fcmp, fexp, nrm>>

\* process() when both reference lists are empty or None
ProcessNoRef ==
    /\ Callable
    /\ consistency' = _notify_no_ref_resource(consistency)
    /\ continuity' = _notify_no_ref_resource(continuity)
    /\ task_summary' = [ParseAll(task_summary) EXCEPT !.Updated = TRUE]
    /\ files' = DumpAll(files, task_summary', consistency', continuity')
    /\ call' = [NoCall EXCEPT !.op = "process", !.parsed = Len(experts),
                              !.dumped = TRUE]
    /\ ncalls' = ncalls + 1
    /\ UNCHANGED <<pc, expert_kwargs, lead_arg, experts, lead_expert, fcmp, fexp, nrm>>

Next ==
    \/ Construct
    \/ Parse
    \/ Dump
    \/ Compare
    \/ CompareExpert
    \/ CompareStatus
    \/ ProcessCompare
    \/ ProcessNoRef

Spec == Init /\ [][Next]_vars

-----------------------------------------------------------------------------
(* The aggregation alone: one category compared, every result document *)

CompareContinuity == CompareWith({<<>>}, {TRUE})

CompareExpertAny == CompareExpertWith("any")

NextStatus ==
    \/ Construct
    \/ CompareContinuity
    \/ CompareExpertAny
    \/ CompareStatus

SpecStatus == Init /\ [][NextStatus]_vars

-----------------------------------------------------------------------------
(* fields.py: compare_2_fields *)

\* str.startswith
startswith(str, prefix) ==
    Len(str) >= Len(prefix) /\ SubSeq(str, 1, Len(prefix)) = prefix

\* ignore_field, for the string identifiers of FA/LFI files
ignore_field(fid) == startswith(fid, "SFX._FBUF_")

abs(v) == IF v < 0 THEN 0 - v ELSE v

Max2(a, b) == IF a > b THEN a ELSE b

\* the value of status['Normalized data diff']: absent, the text of line 558,
\* or the dict that normalized_comparison returned
NoDataDiff == [is |-> "absent", bias |-> 0, std |-> 0, errmax |-> 0]
DimensionsDiffer == [is |-> "Comparison not possible: dimensions differ",
                     bias |-> 0, std |-> 0, errmax |-> 0]
DataDiff(bias, std, errmax) ==
    [is |-> "dict", bias |-> bias, std |-> std, errmax |-> errmax]

\* {}: the keys of a field's status, all absent
EmptyStatus ==
    [ValidityDiff |-> Missing, GeometryDiff |-> Missing,
     NormalizedDataDiff |-> NoDataDiff, MaskIsCommon |-> Missing,
     DataBitRepro |-> Missing, Validated |-> Missing, Error |-> Missing]

PyBool(b) == IF b THEN PyTrue ELSE PyFalse

(* What the two resources hold for one field identifier, as far as            *)
(* compare_2_fields looks at it: whether the field is a MiscField, whether    *)
(* validity and geometry differ (recursive_diff not None), whether the shapes *)
(* and the data are equal, what normalized_comparison returns (in units of a  *)
(* thousandth), and whether reading or comparing the field raises.            *)
SameField ==
    [misc |-> FALSE, validity_diff |-> FALSE, geometry_diff |-> FALSE,
     same_shape |-> TRUE, same_data |-> TRUE, data_diff |-> NoDataDiff,
     common_mask |-> TRUE, raises |-> FALSE]

CloseField == [SameField EXCEPT !.same_data = FALSE, !.data_diff = DataDiff(0 - 1, 0, 1)]

FarField == [SameField EXCEPT !.same_data = FALSE, !.data_diff = DataDiff(1, 1, 2)]

FieldCases ==
    {SameField,
     [SameField EXCEPT !.validity_diff = TRUE],
     [SameField EXCEPT !.geometry_diff = TRUE],
     [SameField EXCEPT !.misc = TRUE],
     [SameField EXCEPT !.same_shape = FALSE, !.same_data = FALSE],
     CloseField,
     FarField,
     [CloseField EXCEPT !.common_mask = FALSE],
     [CloseField EXCEPT !.validity_diff = TRUE],
     [SameField EXCEPT !.raises = TRUE]}

\* the normalized_validation_threshold given, in the same units
Thresholds == {2}

\* max([abs(v) for v in data_diff.values()])
LocMax(d) == Max2(abs(d.bias), Max2(abs(d.std), abs(d.errmax)))

\* any([abs(v) >= normalized_validation_threshold for v in data_diff.values()])
AnyAbove(d, threshold) ==
    abs(d.bias) >= threshold \/ abs(d.std) >= threshold \/ abs(d.errmax) >= threshold

\* compare_2_fields applying the threshold test of lines 580-582 whatever
\* validate_if_bit_repro_only says
compare_2_fields_by_threshold(c, max_normalized_diff, ignore_meta, validate_if_bit_repro_only, normalized_validation_threshold) ==
    LET meta == ~c.misc /\ ~ignore_meta
        s0 == IF meta
              THEN [EmptyStatus EXCEPT
                      !.ValidityDiff = IF c.validity_diff THEN "diff" ELSE None,
                      !.GeometryDiff = IF c.geometry_diff THEN "diff" ELSE None]
              ELSE EmptyStatus
        v0 == ~(meta /\ (c.validity_diff \/ c.geometry_diff))
    IN IF ~c.same_shape
       THEN [status |-> [s0 EXCEPT !.NormalizedDataDiff = DimensionsDiffer,
                                   !.DataBitRepro = PyFalse,
                                   !.Validated = PyFalse],
             max_normalized_diff |-> max_normalized_diff]
       ELSE IF c.same_data
       THEN [status |-> [s0 EXCEPT !.DataBitRepro = PyTrue,
                                   !.Validated = PyBool(v0)],
             max_normalized_diff |-> max_normalized_diff]
       ELSE LET loc_max == LocMax(c.data_diff)
                v2 == /\ v0
                      /\ c.common_mask
                      /\ ~AnyAbove(c.data_diff, normalized_validation_threshold)
            IN [status |-> [s0 EXCEPT !.DataBitRepro = PyFalse,
                                      !.NormalizedDataDiff = c.data_diff,
                                      !.MaskIsCommon = PyBool(c.common_mask),
                                      !.Validated = PyBool(v2)],
                max_normalized_diff |-> Max2(loc_max, max_normalized_diff)]

\* compare_2_fields without the test of line 572: the maximum becomes the
\* last loc_max
compare_2_fields_last_diff(c, max_normalized_diff, ignore_meta, validate_if_bit_repro_only, normalized_validation_threshold) ==
    LET meta == ~c.misc /\ ~ignore_meta
        s0 == IF meta
              THEN [EmptyStatus EXCEPT
                      !.ValidityDiff = IF c.validity_diff THEN "diff" ELSE None,
                      !.GeometryDiff = IF c.geometry_diff THEN "diff" ELSE None]
              ELSE EmptyStatus
        v0 == ~(meta /\ (c.validity_diff \/ c.geometry_diff))
    IN IF ~c.same_shape
       THEN [status |-> [s0 EXCEPT !.NormalizedDataDiff = DimensionsDiffer,
                                   !.DataBitRepro = PyFalse,
                                   !.Validated = PyFalse],
             max_normalized_diff |-> max_normalized_diff]
       ELSE IF c.same_data
       THEN [status |-> [s0 EXCEPT !.DataBitRepro = PyTrue,
                                   !.Validated = PyBool(v0)],
             max_normalized_diff |-> max_normalized_diff]
       ELSE LET v1 == v0 /\ c.common_mask
                v2 == IF validate_if_bit_repro_only
                      THEN FALSE
                      ELSE v1 /\ ~AnyAbove(c.data_diff, normalized_validation_threshold)
            IN [status |-> [s0 EXCEPT !.DataBitRepro = PyFalse,
                                      !.NormalizedDataDiff = c.data_diff,
                                      !.MaskIsCommon = PyBool(c.common_mask),
                                      !.Validated = PyBool(v2)],
                max_normalized_diff |-> LocMax(c.data_diff)]

\* compare_2_fields on a field that reads and compares without raising:
\* [status, max_normalized_diff]
compare_2_fields(c, max_normalized_diff, ignore_meta, validate_if_bit_repro_only, normalized_validation_threshold) ==
    LET meta == ~c.misc /\ ~ignore_meta
        s0 == IF meta
              THEN [EmptyStatus EXCEPT
                      !.ValidityDiff = IF c.validity_diff THEN "diff" ELSE None,
                      !.GeometryDiff = IF c.geometry_diff THEN "diff" ELSE None]
              ELSE EmptyStatus
        v0 == ~(meta /\ (c.validity_diff \/ c.geometry_diff))
    IN IF ~c.same_shape
       THEN [status |-> [s0 EXCEPT !.NormalizedDataDiff = DimensionsDiffer,
                                   !.DataBitRepro = PyFalse,
                                   !.Validated = PyFalse],
             max_normalized_diff |-> max_normalized_diff]
       ELSE IF c.same_data
       THEN [status |-> [s0 EXCEPT !.DataBitRepro = PyTrue,
                                   !.Validated = PyBool(v0)],
             max_normalized_diff |-> max_normalized_diff]
       ELSE LET loc_max == LocMax(c.data_diff)
                v1 == v0 /\ c.common_mask
                v2 == IF validate_if_bit_repro_only
                      THEN FALSE
                      ELSE v1 /\ ~AnyAbove(c.data_diff, normalized_validation_threshold)
            IN [status |-> [s0 EXCEPT !.DataBitRepro = PyFalse,
                                      !.NormalizedDataDiff = c.data_diff,
                                      !.MaskIsCommon = PyBool(c.common_mask),
                                      !.Validated = PyBool(v2)],
                max_normalized_diff |-> IF loc_max > max_normalized_diff
                                        THEN loc_max
                                        ELSE max_normalized_diff]

-----------------------------------------------------------------------------
(* fields.py: compare_2_files *)

\* the string field identifiers of the files, in sorted() order
SortedFieldIds == <<"S001TEMPERATURE", "SFX.T2M", "SFX._FBUF_T2M">>

FieldIds == {SortedFieldIds[i] : i \in 1..Len(SortedFieldIds)}

InSet(S) == LET Test(f) == f \in S IN SelectSeq(SortedFieldIds, Test)

\* [f for f in a if f not in b]
NotIn(a, b) ==
    LET Test(f) == \A j \in 1..Len(b) : b[j] # f IN SelectSeq(a, Test)

\* sorted([f for f in a if f in b])
Intersection(a, b) ==
    LET Test(f) == (\E i \in 1..Len(a) : a[i] = f) /\ (\E j \in 1..Len(b) : b[j] = f)
    IN SelectSeq(SortedFieldIds, Test)

\* x if len(x) > 0 else None
OrNone(list) == [isnone |-> Len(list) = 0, list |-> list]

\* '{:%}'.format(x): x in thousandths, the text in thousandths of a percent
FormatPercent(x) == [percent |-> 100 * x]

FileOptions ==
    [ignore_meta : BOOLEAN, ignore_orphan_fields : BOOLEAN,
     hide_bit_repro_fields : BOOLEAN, validate_if_bit_repro_only : BOOLEAN,
     normalized_validation_threshold : Thresholds, fatal_exceptions : BOOLEAN]

NoStatuses == [f \in {} |-> EmptyStatus]

Put(map, key, value) ==
    [k \in (DOMAIN map) \cup {key} |-> IF k = key THEN value ELSE map[k]]

\* the default of the parameter validate_if_bit_repro_only of compare_2_fields,
\* which compare_2_files does not pass (lines 486-488)
DefaultValidateIfBitReproOnly == TRUE

\* dict.get(key, False) of a key of a field's status
GetOrFalse(v) == IF v = Missing THEN PyFalse ELSE v

\* AllValidated with any() in the place of all()
AnyValidated(fields_status) ==
    \E f \in DOMAIN fields_status : Truthy(GetOrFalse(fields_status[f].Validated))

\* comp['Validated'], line 498
AllValidated(fields_status) ==
    \A f \in DOMAIN fields_status : Truthy(GetOrFalse(fields_status[f].Validated))

\* comp['Bit-reproducible'], lines 510-513
AllBitRepro(fields_status) ==
    \A f \in DOMAIN fields_status :
        /\ Truthy(GetOrFalse(fields_status[f].DataBitRepro))
        /\ fields_status[f].ValidityDiff \in {Missing, None}
        /\ fields_status[f].GeometryDiff \in {Missing, None}

\* comp['Validated means'], lines 499-508
ValidatedMeans(opts) ==
    (IF opts.validate_if_bit_repro_only
     THEN "All fields have identical shape/mask than reference, and data is bit-repro"
     ELSE "All fields have identical shape/mask than reference,"
          \o " " \o "and normalized errors lower than "
          \o ToString(opts.normalized_validation_threshold))
    \o (IF ~opts.ignore_orphan_fields
        THEN ", and no field is orphan on one or the other side."
        ELSE "")

\* OrphansInvalidate looking at the new fields only
NewFieldsInvalidate(opts, new_fields, lost_fields) ==
    ~opts.ignore_orphan_fields /\ Len(new_fields) > 0

\* whether lines 505-507 force comp['Validated'] to False
OrphansInvalidate(opts, new_fields, lost_fields) ==
    ~opts.ignore_orphan_fields /\ Len(new_fields \o lost_fields) > 0

\* the state of compare_2_files(test, ref, ...) at line 481
InitFiles ==
    /\ pc = "new"
    /\ expert_kwargs = <<>>
    /\ lead_arg = [isdict |-> FALSE, value |-> None]
    /\ experts = <<>>
    /\ lead_expert = None
    /\ task_summary = [parsed |-> {}, Status |-> Missing, Updated |-> FALSE]
    /\ consistency = EmptySummary
    /\ continuity = EmptySummary
    /\ files = NoFiles
    /\ call = NoCall
    /\ ncalls = 0
    /\ fexp = NoFexp
    /\ nrm = NoNrm
    /\ \E T \in SUBSET FieldIds, R \in SUBSET FieldIds, opts \in FileOptions :
          fcmp = [pc |-> "loop", test_list |-> InSet(T), ref_list |-> InSet(R),
                  opts |-> opts, i |-> 1, fields_status |-> NoStatuses,
                  all_status |-> NoStatuses, cases |-> [f \in {} |-> SameField],
                  max_normalized_diff |-> 0, uncompared_fields |-> <<>>,
                  running |-> <<0>>]

\* one iteration of "for f in intersection": lines 481-496
CompareField ==
    /\ fcmp.pc = "loop"
    /\ LET intersection == Intersection(fcmp.test_list, fcmp.ref_list)
           f == intersection[fcmp.i]
           o == fcmp.opts
       IN /\ fcmp.i <= Len(intersection)
          /\ IF ignore_field(f)
             THEN fcmp' = [fcmp EXCEPT !.i = @ + 1]
             ELSE \E c \in FieldCases :
                    IF c.raises
                    THEN IF o.fatal_exceptions
                         THEN fcmp' = [fcmp EXCEPT !.pc = "raised",
                                                   !.cases = Put(@, f, c)]
                         ELSE LET status == [EmptyStatus EXCEPT !.Error = "str(e)"]
                              IN fcmp' = [fcmp EXCEPT
                                   !.i = @ + 1,
                                   !.uncompared_fields = Append(@, f),
                                   !.fields_status = Put(@, f, status),
                                   !.all_status = Put(@, f, status),
                                   !.cases = Put(@, f, c),
                                   !.running = Append(@, fcmp.max_normalized_diff)]
                    ELSE LET r == compare_2_fields(c, fcmp.max_normalized_diff,
                                     o.ignore_meta, DefaultValidateIfBitReproOnly,
                                     o.normalized_validation_threshold)
                             shown == ~Truthy(GetOrFalse(r.status.DataBitRepro))
                                      \/ ~o.hide_bit_repro_fields
                         IN fcmp' = [fcmp EXCEPT
                              !.i = @ + 1,
                              !.max_normalized_diff = r.max_normalized_diff,
                              !.fields_status = IF shown THEN Put(@, f, r.status) ELSE @,
                              !.all_status = Put(@, f, r.status),
                              !.cases = Put(@, f, c),
                              !.running = Append(@, r.max_normalized_diff)]
    /\ UNCHANGED boardVars
    /\ UNCHANGED <<fexp, nrm>>

\* "status over all fields": lines 497-520
FinishFiles ==
    /\ fcmp.pc = "loop"
    /\ fcmp.i > Len(Intersection(fcmp.test_list, fcmp.ref_list))
    /\ LET new_fields == NotIn(fcmp.test_list, fcmp.ref_list)
           lost_fields == NotIn(fcmp.ref_list, fcmp.test_list)
           comp == [Validated |-> IF OrphansInvalidate(fcmp.opts, new_fields, lost_fields)
                                  THEN FALSE
                                  ELSE AllValidated(fcmp.fields_status),
                    ValidatedMeans |-> ValidatedMeans(fcmp.opts),
                    BitReproducible |-> AllBitRepro(fcmp.fields_status),
                    CommonFieldsDifferences |-> fcmp.fields_status,
                    MaxNormalizedDiff |-> FormatPercent(fcmp.max_normalized_diff),
                    mainMetrics |-> "Max normalized diff",
                    NewFields |-> OrNone(new_fields),
                    LostFields |-> OrNone(lost_fields),
                    UnableToCompare |-> OrNone(fcmp.uncompared_fields)]
       IN fcmp' = [pc |-> "done", test_list |-> fcmp.test_list,
                   ref_list |-> fcmp.ref_list, opts |-> fcmp.opts,
                   all_status |-> fcmp.all_status, cases |-> fcmp.cases,
                   running |-> fcmp.running, comp |-> comp]
    /\ UNCHANGED boardVars
    /\ UNCHANGED <<fexp, nrm>>

NextFiles ==
    \/ CompareField
    \/ FinishFiles

SpecFiles == InitFiles /\ [][NextFiles]_vars

-----------------------------------------------------------------------------
(* fields.py: FieldsInFileExpert._compare, with self.filenames empty and     *)
(* self.parallel False                                                       *)

\* the state of the board's variables when no board is built
NoBoard ==
    /\ pc = "new"
    /\ expert_kwargs = <<>>
    /\ lead_arg = [isdict |-> FALSE, value |-> None]
    /\ experts = <<>>
    /\ lead_expert = None
    /\ task_summary = [parsed |-> {}, Status |-> Missing, Updated |-> FALSE]
    /\ consistency = EmptySummary
    /\ continuity = EmptySummary
    /\ files = NoFiles
    /\ call = NoCall
    /\ ncalls = 0

\* the local paths of the reference resources, and the files of the directory
RefNames == {"ref.PGD.fa", "continuity.PGD.fa", "ref.PREP1_interpolated.fa"}

LocalNames == {"PGD.fa", "PREP1_interpolated.fa"}

\* the lists of references given: at most two, all different
RefLists ==
    {<<>>} \cup {<<a>> : a \in RefNames}
           \cup {p \in RefNames \X RefNames : p[1] # p[2]}

\* "if f.startswith(prefix): f = f[len(prefix):]"
StripPrefix(f, prefix) ==
    IF startswith(f, prefix) THEN SubSeq(f, Len(prefix) + 1, Len(f)) ELSE f

\* lines 343-346: ref_prefix, cnty_prefix, csty_prefix in turn
TestNameOf(ref) ==
    StripPrefix(StripPrefix(StripPrefix(ref, "ref."), "continuity."), "consistency.")

\* _make_pairs_from_references from the reference at position i on:
\* [pairs, exc]
RECURSIVE MakePairsFrom(_, _, _, _, _)
MakePairsFrom(ref_filenames, present, fatal_exceptions, i, pairs) ==
    IF i > Len(ref_filenames)
    THEN [pairs |-> pairs, exc |-> NoExc]
    ELSE LET ref == ref_filenames[i]
             f == TestNameOf(ref)
         IN IF ref \notin present \/ f \notin present
            THEN IF fatal_exceptions
                 THEN [pairs |-> pairs, exc |-> "ExpertError"]
                 ELSE MakePairsFrom(ref_filenames, present, fatal_exceptions, i + 1, pairs)
            ELSE MakePairsFrom(ref_filenames, present, fatal_exceptions, i + 1, Append(pairs, <<f, ref>>))

_make_pairs_from_references(ref_filenames, present, fatal_exceptions) ==
    MakePairsFrom(ref_filenames, present, fatal_exceptions, 1, <<>>)

\* the options the expert gives to compare_2_files for every pair
ExpertOptions ==
    {o \in FileOptions :
        ~o.ignore_meta /\ ~o.ignore_orphan_fields /\ o.hide_bit_repro_fields}

\* the largest max_normalized_diff of a file pair, in thousandths
MaxDiff == 2

\* what compare_2_files may return for a pair, as far as _compare reads it
FileResults(opts) ==
    LET all == {[Validated |-> v, BitReproducible |-> b,
                 ValidatedMeans |-> ValidatedMeans(opts),
                 mainMetrics |-> "Max normalized diff",
                 MaxNormalizedDiff |-> FormatPercent(x)] :
                    v \in BOOLEAN, b \in BOOLEAN, x \in 0..MaxDiff}
    IN {r \in all : r.BitReproducible => r.MaxNormalizedDiff = FormatPercent(0)}

\* float(c.get('Max normalized diff').strip('%')) / 100.
ParsePercent(text) == text.percent \div 100

\* max([...]) of a non-empty collection
MaxIn(S) == CHOOSE m \in S : \A x \in S : x <= m

\* the dict `overall`, lines 419-426
Overall(comp, pairs) ==
    [Validated |-> \A t \in DOMAIN comp : comp[t].Validated,
     BitReproducible |-> \A t \in DOMAIN comp : comp[t].BitReproducible,
     ValidatedMeans |-> comp[pairs[1][1]].ValidatedMeans,
     mainMetrics |-> comp[pairs[1][1]].mainMetrics,
     MaxNormalizedDiff |->
        FormatPercent(MaxIn({ParsePercent(comp[t].MaxNormalizedDiff) : t \in DOMAIN comp}))]

\* the keys of the returned dict that ExpertBoard._status reads
ExpertDoc(overall) ==
    [EmptyDoc EXCEPT !.Validated = PyBool(overall.Validated),
                     !.means = overall.ValidatedMeans]

\* the dict _compare returns when no pair was made, lines 432-436
DocNoKindRef ==
    [EmptyDoc EXCEPT !.comparisonStatus =
        [symbol |-> "0", short |-> "- No ref -",
         text |-> "No adequate reference available (kind=('historic', 'gridpoint', 'pgdfa', 'initial_condition', 'boundary', 'analysis'))"]]

NoOverall ==
    [Validated |-> FALSE, BitReproducible |-> FALSE, ValidatedMeans |-> Missing,
     mainMetrics |-> Missing, MaxNormalizedDiff |-> FormatPercent(0)]

\* _compare(references) is called
InitExpert ==
    /\ NoBoard
    /\ fcmp = NoFcmp
    /\ nrm = NoNrm
    /\ \E refs \in RefLists, present \in SUBSET (RefNames \cup LocalNames), opts \in ExpertOptions :
          fexp = [pc |-> "pairs", ref_filenames |-> refs, present |-> present,
                  opts |-> opts, pairs |-> <<>>, i |-> 1,
                  comp |-> [t \in {} |-> NoOverall], results |-> <<>>,
                  overall |-> NoOverall, doc |-> EmptyDoc, exc |-> NoExc]

\* "pairs = self._make_pairs(references)", line 390
MakePairs ==
    /\ fexp.pc = "pairs"
    /\ LET r == _make_pairs_from_references(fexp.ref_filenames, fexp.present, fexp.opts.fatal_exceptions)
       IN fexp' = [fexp EXCEPT !.pc = IF r.exc # NoExc THEN "raised" ELSE "loop",
                               !.pairs = r.pairs, !.exc = r.exc]
    /\ UNCHANGED boardVars
    /\ UNCHANGED <<fcmp, nrm>>

\* one iteration of "for (test, ref) in pairs", lines 394-402: compare_2_files
\* returns, or raises when fatal_exceptions is set
ComparePair ==
    /\ fexp.pc = "loop"
    /\ fexp.i <= Len(fexp.pairs)
    /\ \/ \E r \in FileResults(fexp.opts) :
             fexp' = [fexp EXCEPT !.i = @ + 1,
                                  !.comp = Put(@, fexp.pairs[fexp.i][1], r),
                                  !.results = Append(@, r)]
       \/ /\ fexp.opts.fatal_exceptions
          /\ fexp' = [fexp EXCEPT !.pc = "raised", !.exc = "Exception"]
    /\ UNCHANGED boardVars
    /\ UNCHANGED <<fcmp, nrm>>

\* lines 391-392 and 418-437: the overall entries, or the '0' status
Gather ==
    /\ fexp.pc = "loop"
    /\ fexp.i > Len(fexp.pairs)
    /\ IF Len(fexp.pairs) > 0
       THEN LET overall == Overall(fexp.comp, fexp.pairs)
            IN fexp' = [fexp EXCEPT !.pc = "done", !.overall = overall,
                                    !.doc = ExpertDoc(overall)]
       ELSE IF fexp.opts.fatal_exceptions
       THEN fexp' = [fexp EXCEPT !.pc = "raised", !.exc = "ExpertError"]
       ELSE fexp' = [fexp EXCEPT !.pc = "done", !.doc = DocNoKindRef]
    /\ UNCHANGED boardVars
    /\ UNCHANGED <<fcmp, nrm>>

NextExpert ==
    \/ MakePairs
    \/ ComparePair
    \/ Gather

SpecExpert == InitExpert /\ [][NextExpert]_vars

-----------------------------------------------------------------------------
(* fields.py: FieldsInFileExpert._compare with self.parallel True, each pair *)
(* compared by a FieldComparer worker of batch_main                          *)

\* the options FieldComparer._task gives to compare_2_files, lines 638-645:
\* validate_if_bit_repro_only is no attribute of the worker and is not passed,
\* so compare_2_files takes its default
TaskOptions(opts) == [opts EXCEPT !.validate_if_bit_repro_only = TRUE]

\* "for file_report in report['workers_report']: comp[test_filename] =
\* file_comparison", lines 413-416, from the report at position i on; also the
\* loop of lines 394-402 over the pairs and their results
RECURSIVE CollectReports(_, _, _)
CollectReports(workers_report, i, comp) ==
    IF i > Len(workers_report)
    THEN comp
    ELSE CollectReports(workers_report, i + 1,
                        Put(comp, workers_report[i][1], workers_report[i][2]))

\* _compare(references) is called on an expert with parallel set; `returned`
\* holds the positions of the pairs whose worker has returned, `contents` what
\* compare_2_files returns for each pair when it is given all the options
InitParallel ==
    /\ NoBoard
    /\ fcmp = NoFcmp
    /\ nrm = NoNrm
    /\ \E refs \in RefLists, present \in SUBSET (RefNames \cup LocalNames), opts \in ExpertOptions :
          fexp = [pc |-> "pairs", ref_filenames |-> refs, present |-> present,
                  opts |-> opts, pairs |-> <<>>, i |-> 1,
                  comp |-> [t \in {} |-> NoOverall], results |-> <<>>,
                  overall |-> NoOverall, doc |-> EmptyDoc, exc |-> NoExc,
                  returned |-> {}, contents |-> [j \in {} |-> NoOverall],
                  workers_report |-> <<>>]

\* a worker returns (self.test, compare_2_files(...)), in any order among the
\* pairs submitted
WorkerReturn ==
    /\ fexp.pc = "loop"
    /\ \E j \in (1..Len(fexp.pairs)) \ fexp.returned, r \in FileResults(fexp.opts) :
          LET file_comparison ==
                [r EXCEPT !.ValidatedMeans = ValidatedMeans(TaskOptions(fexp.opts))]
          IN fexp' = [fexp EXCEPT
                !.returned = @ \cup {j},
                !.contents = Put(@, j, r),
                !.workers_report = Append(@, <<fexp.pairs[j][1], file_comparison>>)]
    /\ UNCHANGED boardVars
    /\ UNCHANGED <<fcmp, nrm>>

\* batch_main has returned: lines 413-427
Collect ==
    /\ fexp.pc = "loop"
    /\ Len(fexp.pairs) > 0
    /\ fexp.returned = 1..Len(fexp.pairs)
    /\ LET comp == CollectReports(fexp.workers_report, 1, fexp.comp)
           overall == Overall(comp, fexp.pairs)
       IN fexp' = [fexp EXCEPT !.pc = "done", !.comp = comp, !.overall = overall,
                               !.doc = ExpertDoc(overall)]
    /\ UNCHANGED boardVars
    /\ UNCHANGED <<fcmp, nrm>>

NextParallel ==
    \/ MakePairs
    \/ WorkerReturn
    \/ Collect
    \/ Gather

SpecParallel == InitParallel /\ [][NextParallel]_vars

-----------------------------------------------------------------------------
(* fields.py: NormsChecker._compare_2normsets *)

\* the largest number of different digits compare_normsets reports
MaxDigits == 5

\* the largest value considered for the constant NORMSDIGITS_BITREPRO, which
\* fields.py imports from .thresholds
MaxBitReproDigits == 1

\* worst_digit, line 144
WorstDigits == 0..MaxDigits

\* validation_threshold: self.digits4validation, any int
ValidationThresholds == (0 - 1)..MaxDigits

BitReproDigits == 0..MaxBitReproDigits

\* _compare_2normsets with < in the place of <= at lines 149-150
compare_2normsets_strict(worst_digit, validation_threshold, NORMSDIGITS_BITREPRO, plot_spectral) ==
    [MaximumDifferentDigits |-> worst_digit,
     ValidatedMeans |-> "Maximum number of different digits in norms is lower or equal to "
                        \o ToString(validation_threshold),
     Validated |-> worst_digit < validation_threshold,
     BitReproducible |-> worst_digit < NORMSDIGITS_BITREPRO,
     mainMetrics |-> "Maximum different digits",
     NormsCompared |-> ~(worst_digit < validation_threshold),
     Graph |-> plot_spectral]

\* the summary of lines 147-164; NormsCompared and Graph tell whether the keys
\* '_Norms Compared (all)' and 'Graph: Spectral norms evolution (SVG)' are set
_compare_2normsets(worst_digit, validation_threshold, NORMSDIGITS_BITREPRO, plot_spectral) ==
    [MaximumDifferentDigits |-> worst_digit,
     ValidatedMeans |-> "Maximum number of different digits in norms is lower or equal to "
                        \o ToString(validation_threshold),
     Validated |-> worst_digit <= validation_threshold,
     BitReproducible |-> worst_digit <= NORMSDIGITS_BITREPRO,
     mainMetrics |-> "Maximum different digits",
     NormsCompared |-> ~(worst_digit <= validation_threshold),
     Graph |-> plot_spectral]

\* _compare_2normsets is called on two sets of norms
InitNorms ==
    /\ NoBoard
    /\ fcmp = NoFcmp
    /\ fexp = NoFexp
    /\ \E w \in WorstDigits, t \in ValidationThresholds, b \in BitReproDigits, plot \in BOOLEAN :
          nrm = [pc |-> "call", worst_digit |-> w, validation_threshold |-> t,
                 NORMSDIGITS_BITREPRO |-> b, plot_spectral |-> plot]

CompareNormsets ==
    /\ nrm.pc = "call"
    /\ nrm' = [pc |-> "done", worst_digit |-> nrm.worst_digit,
               validation_threshold |-> nrm.validation_threshold,
               NORMSDIGITS_BITREPRO |-> nrm.NORMSDIGITS_BITREPRO,
               plot_spectral |-> nrm.plot_spectral,
               summary |-> _compare_2normsets(nrm.worst_digit, nrm.validation_threshold, nrm.NORMSDIGITS_BITREPRO, nrm.plot_spectral)]
    /\ UNCHANGED boardVars
    /\ UNCHANGED <<fcmp, fexp>>

NextNorms == CompareNormsets

SpecNorms == InitNorms /\ [][NextNorms]_vars

-----------------------------------------------------------------------------
(* fields.py: NormsChecker.summary and NormsChecker.compare_2summaries *)

\* the largest number of steps of the listing
MaxSteps == 2

\* NormsChecker._modes
_modes(mode) ==
    CASE mode = "all" -> "_Norms at each step"
      [] mode = "last" -> "Last step norms"
      [] mode = "last_spectral" -> "Last step with spectral norms"

\* listing.normset.norms_at_each_step: for every step, whether it holds
\* spectral norms and whether it holds gridpoint norms
NormsAtEachStep ==
    UNION {[1..n -> [spnorms : BOOLEAN, gpnorms : BOOLEAN]] : n \in 1..MaxSteps}

\* summary(), lines 69-93. A dict of norms is "full", "empty" or absent; the
\* value written is kept as a list, of one dict for the modes 'last' and
\* 'last_spectral'
summary(normstype, mode, norms_at_each_step) ==
    LET AsDict(i) ==
            [step |-> i,
             spnorms |-> IF norms_at_each_step[i].spnorms THEN "full" ELSE "empty",
             gpnorms |-> IF norms_at_each_step[i].gpnorms THEN "full" ELSE "empty"]
        all == [i \in 1..Len(norms_at_each_step) |-> AsDict(i)]
        only == normstype \in {"spnorms", "gpnorms"}
        HasType(n) == n[normstype] # "empty"
        Restrict(n) == [step |-> n.step,
                        spnorms |-> IF normstype = "spnorms" THEN n.spnorms ELSE Missing,
                        gpnorms |-> IF normstype = "gpnorms" THEN n.gpnorms ELSE Missing]
        selected == SelectSeq(all, HasType)
        typed == IF only
                 THEN [i \in 1..Len(selected) |-> Restrict(selected[i])]
                 ELSE all
        key_suffix == IF only THEN " (" \o normstype \o " only)" ELSE ""
        Spectral(n) == n.spnorms = "full"
        normset == IF mode = "last_spectral" THEN SelectSeq(typed, Spectral) ELSE typed
        Pop(n) == [step |-> n.step,
                   spnorms |-> IF n.spnorms = "empty" THEN Missing ELSE n.spnorms,
                   gpnorms |-> IF n.gpnorms = "empty" THEN Missing ELSE n.gpnorms]
        popped == [i \in 1..Len(normset) |-> Pop(normset[i])]
    IN IF mode # "all" /\ Len(normset) = 0
       THEN [exc |-> "IndexError", NumberOfSteps |-> Len(all), key |-> Missing,
             value |-> <<>>]
       ELSE [exc |-> NoExc, NumberOfSteps |-> Len(all),
             key |-> _modes(mode) \o key_suffix,
             value |-> IF mode = "all" THEN popped ELSE <<popped[Len(popped)]>>]

\* compare_2summaries(test, ref, mode=mode), lines 100-127, worst_digit being
\* what compare_normsets finds between the two sets of norms
compare_2summaries(test, ref, mode, worst_digit, NORMSDIGITS_BITREPRO) ==
    IF test.key # _modes(mode) \/ ref.key # _modes(mode)
    THEN [exc |-> "KeyError", Validated |-> FALSE, BitReproducible |-> FALSE]
    ELSE LET r == _compare_2normsets(worst_digit, NORMSDIGITS_BITREPRO, NORMSDIGITS_BITREPRO, FALSE)
         IN [exc |-> NoExc, Validated |-> r.Validated, BitReproducible |-> r.BitReproducible]

\* a NormsChecker that has parsed its listing
InitSummary ==
    /\ NoBoard
    /\ fcmp = NoFcmp
    /\ fexp = NoFexp
    /\ \E normstype \in {"spnorms", "gpnorms", "both"},
          mode \in {"all", "last", "last_spectral"},
          steps \in NormsAtEachStep, b \in BitReproDigits :
          nrm = [pc |-> "parsed", normstype |-> normstype, mode |-> mode,
                 norms_at_each_step |-> steps, NORMSDIGITS_BITREPRO |-> b]

\* summary() is called
Summarise ==
    /\ nrm.pc = "parsed"
    /\ LET r == summary(nrm.normstype, nrm.mode, nrm.norms_at_each_step)
       IN nrm' = [pc |-> IF r.exc = NoExc THEN "summarised" ELSE "summary failed",
                  normstype |-> nrm.normstype, mode |-> nrm.mode,
                  norms_at_each_step |-> nrm.norms_at_each_step,
                  NORMSDIGITS_BITREPRO |-> nrm.NORMSDIGITS_BITREPRO,
                  summary |-> r]
    /\ UNCHANGED boardVars
    /\ UNCHANGED <<fcmp, fexp>>

\* the summary is compared with itself by compare_2summaries, with the mode of
\* the expert and the default threshold: no digit differs
Compare2Summaries ==
    /\ nrm.pc = "summarised"
    /\ LET r == compare_2summaries(nrm.summary, nrm.summary, nrm.mode, 0, nrm.NORMSDIGITS_BITREPRO)
       IN nrm' = [pc |-> IF r.exc = NoExc THEN "compared" ELSE "comparison failed",
                  normstype |-> nrm.normstype, mode |-> nrm.mode,
                  norms_at_each_step |-> nrm.norms_at_each_step,
                  NORMSDIGITS_BITREPRO |-> nrm.NORMSDIGITS_BITREPRO,
                  summary |-> nrm.summary, comparison |-> r]
    /\ UNCHANGED boardVars
    /\ UNCHANGED <<fcmp, fexp>>

NextSummary ==
    \/ Summarise
    \/ Compare2Summaries

SpecSummary == InitSummary /\ [][NextSummary]_vars

-----------------------------------------------------------------------------
(* Properties of ExpertBoard._status *)

CategorySet == {"consistency", "continuity"}

Current(cat) == IF cat = "consistency" THEN consistency ELSE continuity

Turn(cat) == IF cat = "consistency" THEN 1 ELSE 2

\* the last call ran _status(cat)
Called(cat) ==
    /\ pc = "idle"
    /\ call.op \in {"compare", "process"}
    /\ call.aggregated >= Turn(cat)

\* the last call ran _status(cat) on a summary that was not empty
Attempted(cat) == Called(cat) /\ SummaryLen(call.before[cat]) > 0

\* that run of _status(cat) raised
RaisedIn(cat) == call.exc # NoExc /\ call.aggregated = Turn(cat)

MaxOf(S) == CHOOSE m \in S : \A x \in S : x <= m

\* the symbols the loop of _status(cat) assigned, side experts left out
AssignedSymbols(cat) ==
    {call.assigned[cat][i].symbol : i \in 1..Len(call.assigned[cat])} \ {"skip"}

\* the result document _status(cat) found for the expert at position i
Found(cat, i) ==
    IF experts[i].kind \in DOMAIN call.before[cat].entries
    THEN call.before[cat].entries[experts[i].kind]
    ELSE EmptyDoc

HasEntry(cat, i) == experts[i].kind \in DOMAIN call.before[cat].entries

\* the positions of the experts whose result carried '+'
PlusExperts(cat) ==
    {i \in 1..Len(experts) : HasEntry(cat, i) /\ Found(cat, i).symbol = "+"}

C2_PlusShortCircuit ==
    \A cat \in CategorySet :
        (Attempted(cat) /\ PlusExperts(cat) # {}) =>
            /\ \E i \in PlusExperts(cat) :
                  Current(cat).comparisonStatus = AsStatus(Found(cat, i))
            /\ \A i \in 1..Len(experts) :
                  experts[i].kind \notin DOMAIN Current(cat).entries

\* the status the rules of the claim give to a result document
ClaimedSymbol(doc) ==
    IF doc.Validated = PyTrue THEN "OK"
    ELSE IF doc.Validated = PyFalse THEN "KO"
    ELSE IF doc.Comparison = "Failed" THEN "!"
    ELSE IF doc.comparisonStatus.symbol = "0" THEN "0"
    ELSE "?"

(* C3: when no result carries '+', every non-side expert contributes the     *)
(* status of the first matching rule (Validated True: OK; Validated False:   *)
(* KO; else Comparison 'Failed': '!'; else its own '0'; else '?'), computed  *)
(* from its own result document alone.                                       *)
C3_FirstMatchingRule ==
    \A cat \in CategorySet :
        (Attempted(cat) /\ PlusExperts(cat) = {}) =>
            /\ ~RaisedIn(cat)
            /\ Len(call.assigned[cat]) = Len(experts)
            /\ \A i \in 1..Len(experts) :
                  ~experts[i].side_expert =>
                      call.assigned[cat][i].symbol = ClaimedSymbol(Found(cat, i))

(* C4: _status never raises and leaves one comparisonStatus whose symbol is  *)
(* of the fixed scale, whatever the panel and the result documents.          *)
C4_NeverRaises ==
    \A cat \in CategorySet :
        Called(cat) =>
            /\ ~RaisedIn(cat)
            /\ \E r \in 1..Len(status_order) :
                  Current(cat).comparisonStatus.symbol = status_order[r]

-----------------------------------------------------------------------------
(* Properties of the board *)

KindsOf(panel) == {panel[i].kind : i \in 1..Len(panel)}

AllFiles == {"task_summary.json", "task_consistency.json", "task_continuity.json"}

\* process() was called with both reference lists empty or None
ProcessedWithoutRef ==
    /\ pc = "idle"
    /\ call.op = "process"
    /\ Len(call.consistency) = 0
    /\ ~call.continuity

(* C5: when process() is called with both reference lists empty or absent,   *)
(* every expert is parsed, neither ExpertBoard.compare() nor any expert's    *)
(* compare() is invoked, both category documents end with the status '0'     *)
(* 'No reference to be compared to', and the three documents are dumped      *)
(* with that content.                                                        *)
C5_NoReference ==
    ProcessedWithoutRef =>
        /\ call.exc = NoExc
        /\ call.parsed = Len(experts)
        /\ task_summary.parsed = KindsOf(experts)
        /\ call.compared = 0
        /\ call.board_compare = 0
        /\ consistency.comparisonStatus.symbol = "0"
        /\ consistency.comparisonStatus.text = "No reference to be compared to"
        /\ continuity.comparisonStatus.symbol = "0"
        /\ continuity.comparisonStatus.text = "No reference to be compared to"
        /\ call.dumped
        /\ files.written = AllFiles
        /\ files.task_summary = task_summary
        /\ files.task_consistency = consistency.comparisonStatus
        /\ files.task_continuity = continuity.comparisonStatus

\* process() without reference on a board of two experts that had compared
\* before: the earlier statuses are replaced by '0'
C5_Witness ==
    /\ ProcessedWithoutRef
    /\ Len(experts) = 2
    /\ ncalls = 2
    /\ DOMAIN continuity.entries # {}
    /\ continuity.comparisonStatus = StatusNoRef

\* the summaries that differ from s only in the result documents of the side
\* experts, these being drawn from DocsOf(which, kind)
SideVariants(s, which) ==
    LET side == {k \in DOMAIN s.entries :
                    \E i \in 1..Len(experts) :
                        experts[i].kind = k /\ experts[i].side_expert}
        choices == {g \in [side -> UNION {DocsOf(which, k) : k \in Kinds}] :
                        \A k \in side : g[k] \in DocsOf(which, k)}
    IN {[s EXCEPT !.entries = [k \in DOMAIN s.entries |->
                                  IF k \in side THEN g[k] ELSE s.entries[k]]] :
            g \in choices}

\* what _status makes of summary s: the status it leaves, the exception raised
Outcome(s) ==
    LET r == _status(s, experts, lead_expert)
    IN [comparisonStatus |-> r.summary.comparisonStatus, exc |-> r.exc]

SidePositions == {i \in 1..Len(experts) : experts[i].side_expert}

(* C6 as stated: two runs of _status on the same panel whose category        *)
(* documents differ only in the results of side experts leave the same       *)
(* comparisonStatus, and every side expert's result is still in the          *)
(* document after the aggregation.                                           *)
C6_SideNeverDrives ==
    \A cat \in CategorySet :
        Attempted(cat) =>
            /\ \A alt \in SideVariants(call.before[cat], "any") :
                  Outcome(alt) = Outcome(call.before[cat])
            /\ \A i \in SidePositions :
                  HasEntry(cat, i) =>
                      /\ experts[i].kind \in DOMAIN Current(cat).entries
                      /\ Current(cat).entries[experts[i].kind] = Found(cat, i)

(* C6 amended: the same, for side experts whose results do not carry '+':    *)
(* two such runs leave the same comparisonStatus or raise the same           *)
(* exception; and every side expert's result is still in the document after  *)
(* the aggregation when no expert's result carried '+'.                      *)
C6_SideNeverDrivesUnlessPlus ==
    \A cat \in CategorySet :
        Attempted(cat) =>
            /\ (\A i \in SidePositions : i \notin PlusExperts(cat)) =>
                  /\ \A alt \in SideVariants(call.before[cat], "no crash") :
                        Outcome(alt) = Outcome(call.before[cat])
                  /\ Outcome(call.before[cat]).comparisonStatus
                        = Current(cat).comparisonStatus
            /\ PlusExperts(cat) = {} =>
                  \A i \in SidePositions :
                      HasEntry(cat, i) =>
                          /\ experts[i].kind \in DOMAIN Current(cat).entries
                          /\ Current(cat).entries[experts[i].kind] = Found(cat, i)

\* a side expert that says Validated False beside a non-side expert that says
\* Validated True: the status is OK and the side expert's result is kept
C6_Witness ==
    /\ Attempted("continuity")
    /\ Len(experts) = 2
    /\ experts[1].side_expert
    /\ ~experts[2].side_expert
    /\ Found("continuity", 1).Validated = PyFalse
    /\ Found("continuity", 2).Validated = PyTrue
    /\ continuity.comparisonStatus.symbol = "OK"
    /\ experts[1].kind \in DOMAIN continuity.entries

(* C7: the leadExpert recorded in a category document is the configured lead *)
(* when one was configured (self.lead_expert is never replaced by the        *)
(* inference), otherwise the kind of the single non-side expert; no          *)
(* leadExpert is recorded when none is configured and the number of non-side *)
(* experts is not one; and a completed aggregation of a non-empty category   *)
(* document records the one that exists.                                     *)
C7_LeadSelection ==
    LET configured == LeadOf(lead_arg)
        potential_experts == SelectSeq(experts, NonSide)
    IN /\ (pc # "new" /\ configured # None) => lead_expert = configured
       /\ \A cat \in CategorySet :
            LET recorded == Current(cat).leadExpert
            IN /\ recorded # Missing =>
                     IF configured # None
                     THEN recorded = configured
                     ELSE /\ Len(potential_experts) = 1
                          /\ recorded = potential_experts[1].kind
               /\ (configured = None /\ Len(potential_experts) # 1) =>
                     recorded = Missing
               /\ (/\ Attempted(cat)
                   /\ ~RaisedIn(cat)
                   /\ (configured # None \/ Len(potential_experts) = 1)) =>
                     recorded # Missing

\* a configured lead that is not the single non-side expert, after the second
\* aggregation of both categories
C7_Witness ==
    /\ Attempted("consistency")
    /\ Attempted("continuity")
    /\ ncalls = 2
    /\ call.before.continuity.leadExpert # Missing
    /\ LeadOf(lead_arg) = "fields_in_file"
    /\ Len(SelectSeq(experts, NonSide)) = 1
    /\ SelectSeq(experts, NonSide)[1].kind = "norms"
    /\ consistency.leadExpert = "fields_in_file"
    /\ continuity.leadExpert = "fields_in_file"

-----------------------------------------------------------------------------
(* Properties of compare_2_files *)

ElementsOf(list) == {list[i] : i \in 1..Len(list)}

\* the common fields that compare_2_fields compared without raising
ComparedFields == {f \in DOMAIN fcmp.all_status : fcmp.all_status[f].Error = Missing}

NoMetadataDiff(status) ==
    /\ status.ValidityDiff \in {Missing, None}
    /\ status.GeometryDiff \in {Missing, None}

\* the file-level Validated that follows from the fields shown and the orphans
FileValidatedFollows ==
    fcmp.comp.Validated =
        /\ \A f \in DOMAIN fcmp.comp.CommonFieldsDifferences :
              fcmp.comp.CommonFieldsDifferences[f].Validated = PyTrue
        /\ \/ fcmp.opts.ignore_orphan_fields
           \/ ElementsOf(fcmp.test_list) = ElementsOf(fcmp.ref_list)

(* C8: when compare_2_files runs with validate_if_bit_repro_only = False,    *)
(* every compared field is Validated exactly when it has no metadata diff,   *)
(* the shapes agree and either the data are identical or the mask is common  *)
(* and errmax is below normalized_validation_threshold; the file-level       *)
(* Validated follows.                                                        *)
C8_ThresholdMode ==
    (fcmp.pc = "done" /\ ~fcmp.opts.validate_if_bit_repro_only) =>
        /\ \A f \in ComparedFields :
              LET status == fcmp.all_status[f]
                  c == fcmp.cases[f]
              IN (status.Validated = PyTrue) <=>
                    /\ NoMetadataDiff(status)
                    /\ c.same_shape
                    /\ \/ c.same_data
                       \/ /\ c.common_mask
                          /\ abs(c.data_diff.errmax)
                                < fcmp.opts.normalized_validation_threshold
        /\ FileValidatedFollows

(* C9 as stated: with validate_if_bit_repro_only = True, the Validated of    *)
(* every compared field equals its 'Data bit-repro'.                         *)
C9_BitReproOnly ==
    (fcmp.pc = "done" /\ fcmp.opts.validate_if_bit_repro_only) =>
        \A f \in ComparedFields :
            fcmp.all_status[f].Validated = fcmp.all_status[f].DataBitRepro

(* C9 amended: with validate_if_bit_repro_only = True, every compared field  *)
(* is Validated exactly when its data are bit-reproducible and neither its   *)
(* 'Validity diff' nor its 'Geometry diff' is non-empty.                     *)
C9_BitReproAndNoMetadataDiff ==
    (fcmp.pc = "done" /\ fcmp.opts.validate_if_bit_repro_only) =>
        \A f \in ComparedFields :
            LET status == fcmp.all_status[f]
            IN /\ status.Validated \in {PyTrue, PyFalse}
               /\ status.DataBitRepro \in {PyTrue, PyFalse}
               /\ (status.Validated = PyTrue) <=>
                     (status.DataBitRepro = PyTrue /\ NoMetadataDiff(status))

\* bit-repro-only mode on two fields: one that differs below the threshold
\* and one with identical data but another validity
C9_Witness ==
    /\ fcmp.pc = "done"
    /\ fcmp.opts.validate_if_bit_repro_only
    /\ ~fcmp.opts.ignore_meta
    /\ ComparedFields = {"S001TEMPERATURE", "SFX.T2M"}
    /\ fcmp.cases["S001TEMPERATURE"] = CloseField
    /\ fcmp.all_status["S001TEMPERATURE"].Validated = PyFalse
    /\ fcmp.all_status["SFX.T2M"].DataBitRepro = PyTrue
    /\ fcmp.all_status["SFX.T2M"].ValidityDiff = "diff"
    /\ fcmp.all_status["SFX.T2M"].Validated = PyFalse

(* C10: compare_2_files reports as 'New fields' the fields of the test file  *)
(* that the reference has not and as 'Lost fields' the fields of the         *)
(* reference that the test file has not (None when there is none); with      *)
(* ignore_orphan_fields = False and different field sets Validated is False  *)
(* whatever the common fields say; with ignore_orphan_fields = True          *)
(* Validated is what the common fields shown say.                            *)
C10_Orphans ==
    fcmp.pc = "done" =>
        LET T == ElementsOf(fcmp.test_list)
            R == ElementsOf(fcmp.ref_list)
            new == fcmp.comp.NewFields
            lost == fcmp.comp.LostFields
        IN /\ ElementsOf(new.list) = T \ R
           /\ ElementsOf(lost.list) = R \ T
           /\ Len(new.list) = Cardinality(T \ R)
           /\ Len(lost.list) = Cardinality(R \ T)
           /\ new.isnone <=> (T \ R = {})
           /\ lost.isnone <=> (R \ T = {})
           /\ (~fcmp.opts.ignore_orphan_fields /\ T # R) => ~fcmp.comp.Validated
           /\ FileValidatedFollows

\* the reference lost a field, the test file has no new one, the common field
\* matches exactly, orphans are not tolerated: not validated
C10_Witness ==
    /\ fcmp.pc = "done"
    /\ ~fcmp.opts.ignore_orphan_fields
    /\ fcmp.test_list = <<"S001TEMPERATURE">>
    /\ fcmp.ref_list = <<"S001TEMPERATURE", "SFX.T2M">>
    /\ fcmp.cases["S001TEMPERATURE"] = SameField
    /\ fcmp.all_status["S001TEMPERATURE"].Validated = PyTrue
    /\ fcmp.comp.NewFields.isnone
    /\ fcmp.comp.LostFields.list = <<"SFX.T2M">>
    /\ ~fcmp.comp.Validated

\* the fields of a file that ignore_field does not skip
Kept(list) == {f \in ElementsOf(list) : ~ignore_field(f)}

(* C11: a field whose identifier starts with 'SFX._FBUF_' is never compared, *)
(* is in neither 'New fields' nor 'Lost fields', and the file-level          *)
(* Validated and Bit-reproducible are what the other fields alone give, with *)
(* ignore_orphan_fields True or False.                                       *)
C11_SkippedFields ==
    fcmp.pc = "done" =>
        /\ \A f \in FieldIds :
              ignore_field(f) =>
                  /\ f \notin DOMAIN fcmp.all_status
                  /\ f \notin ElementsOf(fcmp.comp.NewFields.list)
                  /\ f \notin ElementsOf(fcmp.comp.LostFields.list)
        /\ fcmp.comp.Validated =
              /\ AllValidated(fcmp.comp.CommonFieldsDifferences)
              /\ \/ fcmp.opts.ignore_orphan_fields
                 \/ Kept(fcmp.test_list) = Kept(fcmp.ref_list)
        /\ fcmp.comp.BitReproducible = AllBitRepro(fcmp.comp.CommonFieldsDifferences)

(* C12: the file-level Validated and Bit-reproducible do not depend on       *)
(* hide_bit_repro_fields: they are the conjunction, over all the common      *)
(* fields compared, of the field's Validated, respectively of (Data          *)
(* bit-repro and no validity diff and no geometry diff), which is what       *)
(* hide_bit_repro_fields = False returns for the same files and options.     *)
C12_CompactionKeepsAggregates ==
    fcmp.pc = "done" =>
        /\ fcmp.comp.Validated =
              /\ AllValidated(fcmp.all_status)
              /\ ~OrphansInvalidate(fcmp.opts, NotIn(fcmp.test_list, fcmp.ref_list), NotIn(fcmp.ref_list, fcmp.test_list))
        /\ fcmp.comp.BitReproducible = AllBitRepro(fcmp.all_status)

\* the one-expert panel that holds the FieldsInFileExpert, not a side expert
FieldsPanel == <<[kind |-> "fields_in_file", side_expert |-> FALSE]>>

\* the status ExpertBoard._status gives to a category whose only result is
\* what FieldsInFileExpert._compare makes of the file result comp
StatusOfFileResult(comp) ==
    LET pairs == <<<<"PGD.fa", "ref.PGD.fa">>>>
        doc == ExpertDoc(Overall([t \in {"PGD.fa"} |-> comp], pairs))
    IN _status(SetEntry(EmptySummary, "fields_in_file", doc), FieldsPanel, None).summary.comparisonStatus

RaisingFields == {f \in DOMAIN fcmp.cases : fcmp.cases[f].raises}

(* C13: with fatal_exceptions False, a common field whose comparison raises  *)
(* is listed in 'Unable to compare fields', every other common field that is *)
(* not skipped is still compared, and the category status aggregated from    *)
(* the expert's result is '!'; with fatal_exceptions True the exception      *)
(* propagates and there is no file-level result.                             *)
C13_TechnicalErrors ==
    /\ (fcmp.pc = "done" /\ RaisingFields # {}) =>
          /\ ~fcmp.opts.fatal_exceptions
          /\ RaisingFields \subseteq ElementsOf(fcmp.comp.UnableToCompare.list)
          /\ DOMAIN fcmp.all_status = Kept(Intersection(fcmp.test_list, fcmp.ref_list))
          /\ StatusOfFileResult(fcmp.comp).symbol = "!"
    /\ (fcmp.pc \in {"loop", "raised"} /\ RaisingFields # {} /\ fcmp.opts.fatal_exceptions) =>
          fcmp.pc = "raised"

(* C14: when pairs were made, the overall Validated is the conjunction of    *)
(* the Validated of every pair compared, the overall Bit-reproducible that   *)
(* of their Bit-reproducible, the overall 'Max normalized diff' the largest  *)
(* of theirs, and 'Validated means' and 'mainMetrics' those of the first     *)
(* pair.                                                                     *)
C14_MultiFileAggregation ==
    (fexp.pc = "done" /\ Len(fexp.pairs) > 0) =>
        LET n == Len(fexp.results)
        IN /\ n = Len(fexp.pairs)
           /\ fexp.overall.Validated = \A i \in 1..n : fexp.results[i].Validated
           /\ fexp.overall.BitReproducible = \A i \in 1..n : fexp.results[i].BitReproducible
           /\ fexp.overall.MaxNormalizedDiff.percent
                 = MaxIn({fexp.results[i].MaxNormalizedDiff.percent : i \in 1..n})
           /\ fexp.overall.ValidatedMeans = fexp.results[1].ValidatedMeans
           /\ fexp.overall.mainMetrics = fexp.results[1].mainMetrics

\* the file was compared with an identical copy of itself: same fields, and
\* every field read has the same metadata, shape and data on both sides
SelfComparison ==
    /\ fcmp.pc = "done"
    /\ fcmp.test_list = fcmp.ref_list
    /\ \A f \in DOMAIN fcmp.cases :
          fcmp.cases[f] \in {SameField, [SameField EXCEPT !.misc = TRUE]}

(* C15: comparing a file with an identical copy of itself gives              *)
(* Bit-reproducible True, Validated True, 'Max normalized diff' 0%, and None *)
(* for 'New fields', 'Lost fields' and 'Unable to compare fields', whatever  *)
(* the fields of the file and the options.                                   *)
C15_SelfComparison ==
    SelfComparison =>
        /\ fcmp.comp.BitReproducible
        /\ fcmp.comp.Validated
        /\ fcmp.comp.MaxNormalizedDiff = FormatPercent(0)
        /\ fcmp.comp.MaxNormalizedDiff.percent = 0
        /\ fcmp.comp.NewFields = OrNone(<<>>)
        /\ fcmp.comp.LostFields = OrNone(<<>>)
        /\ fcmp.comp.UnableToCompare = OrNone(<<>>)
        /\ \A f \in DOMAIN fcmp.all_status :
              /\ fcmp.all_status[f].Validated = PyTrue
              /\ fcmp.all_status[f].DataBitRepro = PyTrue

\* a file of three fields, one of them skipped, against itself, the
\* bit-reproducible fields hidden: the report of the common fields is empty
C15_Witness ==
    /\ SelfComparison
    /\ Len(fcmp.test_list) = 3
    /\ DOMAIN fcmp.all_status = {"S001TEMPERATURE", "SFX.T2M"}
    /\ fcmp.opts.hide_bit_repro_fields
    /\ ~fcmp.opts.validate_if_bit_repro_only
    /\ DOMAIN fcmp.comp.CommonFieldsDifferences = {}
    /\ fcmp.comp.Validated
    /\ fcmp.comp.BitReproducible

-----------------------------------------------------------------------------
(* Properties of the calls made on the board *)

(* C17: a call of compare() (by itself or by process()) whose consistency    *)
(* references come from more than one task raises ExpertError, whatever the  *)
(* experts of the panel, without any expert's compare() being called, and    *)
(* leaves the consistency and continuity documents as they were.             *)
C17_MismatchedConsistency ==
    [][(/\ ncalls' = ncalls + 1
        /\ call'.op \in {"compare", "process"}
        /\ SeveralTasks(call'.consistency))
       => /\ call'.exc = "ExpertError"
          /\ pc' = "idle"
          /\ call'.compared = 0
          /\ call'.aggregated = 0
          /\ consistency' = consistency
          /\ continuity' = continuity]_vars

\* the second call is a compare() with references of two tasks, after a
\* compare() to continuity references only: the documents are those it left
C17_Witness ==
    /\ pc = "idle"
    /\ ncalls = 2
    /\ call.op = "compare"
    /\ call.exc = "ExpertError"
    /\ SeveralTasks(call.consistency)
    /\ call.continuity
    /\ Len(experts) = 2
    /\ consistency.referenceTask = Missing
    /\ consistency.comparisonStatus = StatusNoRef
    /\ continuity.comparisonStatus.symbol = "OK"

(* C18: when the factory finds no expert for a configuration record, the     *)
(* construction of the board raises, whatever the record's fatal_exceptions: *)
(* no board is obtained after add_expert went past such a record.            *)
C18_UnresolvedKindFatal ==
    (call.op = "__init__" /\ call.warned) => pc = "failed"

(* C19: the calls on one board only go forward through Initialized, Parsed,  *)
(* Compared, Dumped: no expert compares before every expert was parsed, and  *)
(* no aggregation runs on a category document that an earlier call had       *)
(* already given its comparisonStatus.                                       *)
C19_ForwardOnly ==
    /\ call.compared > 0 => task_summary.parsed = KindsOf(experts)
    /\ \A cat \in CategorySet :
          Called(cat) => call.before[cat].comparisonStatus.symbol = Missing

-----------------------------------------------------------------------------
(* Properties of the texts of ExpertBoard._status *)

\* the non-side experts, in panel order, whose own result gives that symbol
Contributors(cat, symbol) ==
    LET Test(i) == /\ ~experts[i].side_expert
                   /\ HasEntry(cat, i)
                   /\ ClaimedSymbol(Found(cat, i)) = symbol
    IN SelectSeq([i \in 1..Len(experts) |-> i], Test)

\* the explanatory text of the status of the expert at position i
TextOf(cat, i) ==
    IF Found(cat, i).Validated = PyTrue
    THEN StatusOK(Found(cat, i).means).text
    ELSE StatusKO(Found(cat, i).means).text

RECURSIVE JoinTexts(_)
JoinTexts(texts) ==
    IF Len(texts) = 0 THEN ""
    ELSE IF Len(texts) = 1 THEN texts[1]
    ELSE texts[1] \o " | " \o JoinTexts(Tail(texts))

(* C20: when _status leaves the symbol OK or KO, the text is the texts of    *)
(* the non-side experts that gave that symbol, in panel order, joined by     *)
(* ' | ', each once; when it leaves '?' or '!', the status is the plain      *)
(* status of that symbol, not a concatenation.                               *)
C20_TieBreakText ==
    \A cat \in CategorySet :
        (Attempted(cat) /\ ~RaisedIn(cat)) =>
            LET final == Current(cat).comparisonStatus
                who == Contributors(cat, final.symbol)
            IN /\ final.symbol \in {"OK", "KO"} =>
                     final.text = JoinTexts([j \in 1..Len(who) |-> TextOf(cat, who[j])])
               /\ final.symbol = "?" => final = StatusUnknown
               /\ final.symbol = "!" => final = StatusCompIssue

-----------------------------------------------------------------------------
(* Properties of NormsChecker._compare_2normsets *)

(* C16 as stated: Validated = (worst_digit <= digits4validation),            *)
(* Bit-reproducible = (worst_digit <= NORMSDIGITS_BITREPRO), and             *)
(* Bit-reproducible implies Validated, for every threshold configured.       *)
C16_NormsVerdict ==
    nrm.pc = "done" =>
        /\ nrm.summary.Validated = (nrm.worst_digit <= nrm.validation_threshold)
        /\ nrm.summary.BitReproducible = (nrm.worst_digit <= nrm.NORMSDIGITS_BITREPRO)
        /\ nrm.summary.BitReproducible => nrm.summary.Validated

(* C16 amended: the two equalities hold for every threshold configured, and  *)
(* Bit-reproducible implies Validated when digits4validation is not below    *)
(* NORMSDIGITS_BITREPRO.                                                     *)
C16_NormsVerdictAboveBitRepro ==
    nrm.pc = "done" =>
        /\ nrm.summary.Validated = (nrm.worst_digit <= nrm.validation_threshold)
        /\ nrm.summary.BitReproducible = (nrm.worst_digit <= nrm.NORMSDIGITS_BITREPRO)
        /\ nrm.validation_threshold >= nrm.NORMSDIGITS_BITREPRO =>
              (nrm.summary.BitReproducible => nrm.summary.Validated)

\* the worst digit count equals the threshold, above NORMSDIGITS_BITREPRO:
\* validated, not bit-reproducible
C16_Witness ==
    /\ nrm.pc = "done"
    /\ nrm.worst_digit = nrm.validation_threshold
    /\ nrm.worst_digit > nrm.NORMSDIGITS_BITREPRO
    /\ nrm.summary.Validated
    /\ ~nrm.summary.BitReproducible

-----------------------------------------------------------------------------
(* Properties of the running maximum of compare_2_files *)

\* the field of the iteration that compare_2_files is about to run
CurrentField == Intersection(fcmp.test_list, fcmp.ref_list)[fcmp.i]

\* the field leaves the maximum alone: it is bit-reproducible, its shapes
\* differ, or its comparison raises
LeavesMaximum(c) == c.same_data \/ ~c.same_shape \/ c.raises

(* C21: in one compare_2_files call the running maximum normalized diff      *)
(* starts at 0; each field processed leaves it equal or larger (the larger   *)
(* of its value and the field's largest absolute normalized diff); skipped,  *)
(* bit-reproducible, shape-mismatched and raising (non-fatal) fields leave   *)
(* it unchanged; 'Max normalized diff' reports its final value.              *)
C21_RunningMaximum ==
    /\ fcmp.pc = "loop" => fcmp.max_normalized_diff = 0
    /\ [][fcmp.pc = "loop" =>
            /\ fcmp'.pc = "loop" =>
                  /\ fcmp'.max_normalized_diff >= fcmp.max_normalized_diff
                  /\ ignore_field(CurrentField) =>
                        fcmp'.max_normalized_diff = fcmp.max_normalized_diff
                  /\ ~ignore_field(CurrentField) =>
                        LET c == fcmp'.cases[CurrentField]
                        IN fcmp'.max_normalized_diff =
                             IF LeavesMaximum(c)
                             THEN fcmp.max_normalized_diff
                             ELSE Max2(fcmp.max_normalized_diff, LocMax(c.data_diff))
            /\ fcmp'.pc = "done" =>
                  fcmp'.comp.MaxNormalizedDiff = FormatPercent(fcmp.max_normalized_diff)]_vars

\* a field with the largest diff 2, then a field with the largest diff 1: the
\* maximum reported is still 2
C21_Witness ==
    /\ fcmp.pc = "done"
    /\ DOMAIN fcmp.cases = {"S001TEMPERATURE", "SFX.T2M"}
    /\ fcmp.cases["S001TEMPERATURE"] = FarField
    /\ fcmp.cases["SFX.T2M"] = CloseField
    /\ fcmp.running = <<0, 2, 2>>
    /\ fcmp.comp.MaxNormalizedDiff = FormatPercent(2)

-----------------------------------------------------------------------------
(* Properties of FieldsInFileExpert._compare in parallel mode *)

(* C22: in parallel mode the result document (per-file entries and overall   *)
(* entries) is the one obtained when the workers return in the order of      *)
(* submission, whatever the order in which they returned.                    *)
C22_ReturnOrder ==
    (fexp.pc = "done" /\ Len(fexp.pairs) > 0) =>
        LET as_submitted ==
              [j \in 1..Len(fexp.pairs) |->
                 <<fexp.pairs[j][1],
                   [fexp.contents[j] EXCEPT
                      !.ValidatedMeans = ValidatedMeans(TaskOptions(fexp.opts))]>>]
            comp == CollectReports(as_submitted, 1, [t \in {} |-> NoOverall])
        IN /\ fexp.comp = comp
           /\ fexp.overall = Overall(comp, fexp.pairs)

(* C23: the result document of parallel mode (per-file entries and overall   *)
(* entries) is the one the sequential loop gives for the same pairs and the  *)
(* same options, 'Validated means' included.                                 *)
C23_ParallelIsSequential ==
    (fexp.pc = "done" /\ Len(fexp.pairs) > 0) =>
        LET sequential ==
              [j \in 1..Len(fexp.pairs) |-> <<fexp.pairs[j][1], fexp.contents[j]>>]
            comp == CollectReports(sequential, 1, [t \in {} |-> NoOverall])
        IN /\ fexp.comp = comp
           /\ fexp.overall = Overall(comp, fexp.pairs)

-----------------------------------------------------------------------------
(* Properties of NormsChecker.summary and compare_2summaries *)

(* C24: for every normstype, every mode and every non-empty sequence of      *)
(* steps, summary() succeeds, compare_2summaries with the same mode finds    *)
(* the key summary() wrote, and the summary compared with itself is          *)
(* Validated.                                                                *)
C24_SummaryRoundTrip ==
    /\ nrm.pc # "summary failed"
    /\ nrm.pc # "comparison failed"
    /\ nrm.pc = "summarised" => nrm.summary.key = _modes(nrm.mode)
    /\ nrm.pc = "compared" => nrm.comparison.Validated

-----------------------------------------------------------------------------
(* Properties of ExpertBoard.compare about missing references *)

\* the last compare() was given a reference list for the category that is not
\* empty
Supplied(cat) ==
    IF cat = "consistency" THEN Len(call.consistency) > 0 ELSE call.continuity

(* C25: after compare() has returned, a category's comparisonStatus is '0'   *)
(* 'No reference to be compared to' if and only if no reference was supplied *)
(* for that category, whatever the panel.                                    *)
C25_NoReferenceIffNotSupplied ==
    \A cat \in CategorySet :
        (Called(cat) /\ call.board_compare > 0 /\ call.exc = NoExc) =>
            (Current(cat).comparisonStatus = StatusNoRef <=> ~Supplied(cat))

====
